---------------------------- MODULE Spec2Model ----------------------------
(***************************************************************************)
(* A model of the fantasy-football scoring core of jrapisarda/             *)
(* ai-coding-agent (src/unnamed/part_002): normalizeScore,                 *)
(* calculatePowerScores, identifySleepers, analyzeTrends.                  *)
(*                                                                         *)
(* Numbers.  A JavaScript value that reaches the arithmetic of the core is *)
(* modelled as a record [k, n, d]:                                         *)
(*   k = "num"    the finite number n/d (d > 0, lowest terms)              *)
(*   k = "nan"    NaN                                                      *)
(*   k = "inf"    +Infinity          k = "ninf"   -Infinity                *)
(*   k = "undef"  undefined (an absent property)                           *)
(* Finite arithmetic is exact.  The program computes in IEEE-754 binary64; *)
(* the decimal values the specifications below draw inputs from are ones   *)
(* on which the binary64 evaluation of part_002 and the exact evaluation   *)
(* give the same one-decimal results.                                      *)
(***************************************************************************)
EXTENDS Integers, Sequences, FiniteSets, TLC

VARIABLES
    players,      \* the collection the caller holds (a sequence of player records)
    arg,          \* the argument of the last call of an exported function
    outcome,      \* how that call ended: [op, kind, value, error]
    nScore,       \* the arguments of a call of normalizeScore
    nMin,
    nMax,
    nOut,         \* how that call ended: [kind, value, error]
    gameLog,      \* the game log a caller of analyzeTrends holds
    trend,        \* how a call of analyzeTrends ended: [kind, value, error]
    appPlayers,   \* App: the players state (useState([]))
    loading,      \* App: the loading state (useState(false))
    requests      \* App: the calls of loadInitialData / scrapeData, in start order

vars == <<players, arg, outcome, nScore, nMin, nMax, nOut, gameLog, trend,
          appPlayers, loading, requests>>

---------------------------------------------------------------------------
(* JavaScript numbers *)

Abs(x) == IF x < 0 THEN -x ELSE x

RECURSIVE GCD(_, _)
GCD(a, b) == IF b = 0 THEN a ELSE GCD(b, a % b)

\* The finite number n/d, d # 0, in lowest terms with a positive denominator.
Rat(n, d) ==
    LET g == GCD(Abs(n), Abs(d))
        s == IF d < 0 THEN -1 ELSE 1
    IN  [k |-> "num", n |-> (s * n) \div g, d |-> (s * d) \div g]

Int2Num(i) == [k |-> "num", n |-> i, d |-> 1]
NaN        == [k |-> "nan",   n |-> 0, d |-> 1]
PosInf     == [k |-> "inf",   n |-> 0, d |-> 1]
NegInf     == [k |-> "ninf",  n |-> 0, d |-> 1]
Undefined  == [k |-> "undef", n |-> 0, d |-> 1]

IsNum(v)   == v.k = "num"
IsNaN(v)   == v.k = "nan"

\* ToNumber: undefined converts to NaN, a number to itself.
ToNumber(v) == IF v.k = "undef" THEN NaN ELSE v

\* -1, 0, 1 for a value that is not NaN.
Sign(v) ==
    CASE v.k = "inf"  -> 1
      [] v.k = "ninf" -> -1
      [] OTHER        -> IF v.n > 0 THEN 1 ELSE IF v.n < 0 THEN -1 ELSE 0

Infinite(s) == IF s > 0 THEN PosInf ELSE NegInf

\* a < b on values that are not NaN.
Less(a, b) ==
    CASE a.k = "inf"  -> FALSE
      [] a.k = "ninf" -> b.k # "ninf"
      [] b.k = "inf"  -> TRUE
      [] b.k = "ninf" -> FALSE
      [] OTHER        -> a.n * b.d < b.n * a.d

\* x + y
JsAdd(x, y) ==
    LET a == ToNumber(x)
        b == ToNumber(y)
    IN  CASE IsNaN(a) \/ IsNaN(b)      -> NaN
          [] ~IsNum(a) /\ ~IsNum(b)    -> IF a.k = b.k THEN a ELSE NaN
          [] ~IsNum(a)                 -> a
          [] ~IsNum(b)                 -> b
          [] OTHER                     -> Rat(a.n * b.d + b.n * a.d, a.d * b.d)

JsNeg(x) ==
    LET a == ToNumber(x)
    IN  CASE IsNaN(a)     -> NaN
          [] a.k = "inf"  -> NegInf
          [] a.k = "ninf" -> PosInf
          [] OTHER        -> Rat(-a.n, a.d)

\* x - y
JsSub(x, y) == JsAdd(x, JsNeg(y))

\* x * y
JsMul(x, y) ==
    LET a == ToNumber(x)
        b == ToNumber(y)
    IN  CASE IsNaN(a) \/ IsNaN(b)      -> NaN
          [] ~IsNum(a) \/ ~IsNum(b)    ->
                IF Sign(a) = 0 \/ Sign(b) = 0 THEN NaN
                ELSE Infinite(Sign(a) * Sign(b))
          [] OTHER                     -> Rat(a.n * b.n, a.d * b.d)

\* x / y; a zero divisor here is always +0 (the difference of two equal numbers).
JsDiv(x, y) ==
    LET a == ToNumber(x)
        b == ToNumber(y)
    IN  CASE IsNaN(a) \/ IsNaN(b)      -> NaN
          [] ~IsNum(a) /\ ~IsNum(b)    -> NaN
          [] ~IsNum(a)                 ->
                Infinite(IF Sign(b) < 0 THEN -Sign(a) ELSE Sign(a))
          [] ~IsNum(b)                 -> Int2Num(0)
          [] b.n = 0                   ->
                IF a.n = 0 THEN NaN ELSE Infinite(Sign(a))
          [] OTHER                     -> Rat(a.n * b.d, a.d * b.n)

\* x > y: false as soon as either side converts to NaN.
JsGt(x, y) ==
    LET a == ToNumber(x)
        b == ToNumber(y)
    IN  ~IsNaN(a) /\ ~IsNaN(b) /\ Less(b, a)

\* Math.min(x, y) and Math.max(x, y): NaN if either argument is NaN.
MathMin(x, y) ==
    LET a == ToNumber(x)
        b == ToNumber(y)
    IN  IF IsNaN(a) \/ IsNaN(b) THEN NaN ELSE IF Less(b, a) THEN b ELSE a

MathMax(x, y) ==
    LET a == ToNumber(x)
        b == ToNumber(y)
    IN  IF IsNaN(a) \/ IsNaN(b) THEN NaN ELSE IF Less(a, b) THEN b ELSE a

\* Math.round(x): the integer nearest x, a half rounding towards +Infinity.
MathRound(x) ==
    LET a == ToNumber(x)
    IN  IF IsNum(a) THEN Int2Num((2 * a.n + a.d) \div (2 * a.d)) ELSE a

---------------------------------------------------------------------------
(* part_002: normalizeScore *)

\* Variant: the rescaled value returned without the clamp to [0, 100].
normalizeScore_Unclamped(score, min, max) ==
    JsMul(JsDiv(JsSub(score, min), JsSub(max, min)), Int2Num(100))

normalizeScore(score, min, max) ==
    MathMax(Int2Num(0),
            MathMin(Int2Num(100),
                    JsMul(JsDiv(JsSub(score, min), JsSub(max, min)), Int2Num(100))))

---------------------------------------------------------------------------
(* part_002: calculatePowerScores *)

performanceWeight == Rat(4, 10)
projectionWeight  == Rat(35, 100)
sleeperWeight     == Rat(25, 100)

\* Variant: the sleeper term weighted without the further factor 10.
ScorePlayer_NoRescale(player) ==
    LET normalizedPerformance ==
            normalizeScore(player.performance_score, Int2Num(0), Int2Num(100))
        normalizedProjection ==
            normalizeScore(player.projection_score, Int2Num(0), Int2Num(100))
        normalizedSleeper ==
            normalizeScore(player.sleeper_rating, Int2Num(0), Int2Num(10))
        powerScore ==
            JsAdd(JsAdd(JsMul(normalizedPerformance, performanceWeight),
                        JsMul(normalizedProjection, projectionWeight)),
                  JsMul(normalizedSleeper, sleeperWeight))
    IN  [player EXCEPT
            !.power_score = JsDiv(MathRound(JsMul(powerScore, Int2Num(10))), Int2Num(10))]

\* The callback of players.map: the record with power_score set (an existing
\* power_score is overwritten, every other property is copied by the spread).
ScorePlayer(player) ==
    LET normalizedPerformance ==
            normalizeScore(player.performance_score, Int2Num(0), Int2Num(100))
        normalizedProjection ==
            normalizeScore(player.projection_score, Int2Num(0), Int2Num(100))
        normalizedSleeper ==
            normalizeScore(player.sleeper_rating, Int2Num(0), Int2Num(10))
        powerScore ==
            JsAdd(JsAdd(JsMul(normalizedPerformance, performanceWeight),
                        JsMul(normalizedProjection, projectionWeight)),
                  JsMul(JsMul(normalizedSleeper, sleeperWeight), Int2Num(10)))
    IN  [player EXCEPT
            !.power_score = JsDiv(MathRound(JsMul(powerScore, Int2Num(10))), Int2Num(10))]

\* The comparator (a, b) => b.power_score - a.power_score as Array.prototype.sort
\* reads it: the sign of the difference, a NaN difference counting as 0.
SortCompare(a, b) ==
    LET v == JsSub(b.power_score, a.power_score)
    IN  IF IsNaN(v) THEN 0 ELSE Sign(v)

\* ECMAScript's "consistent comparator" over the elements of s.  It fails here
\* exactly when NaN scores (equal to everything) meet two different numbers.
ConsistentComparator(s) ==
    \A i, j, k \in 1..Len(s) :
        /\ SortCompare(s[i], s[j]) = -SortCompare(s[j], s[i])
        /\ (SortCompare(s[i], s[j]) = 0 /\ SortCompare(s[j], s[k]) = 0)
              => SortCompare(s[i], s[k]) = 0
        /\ (SortCompare(s[i], s[j]) < 0 /\ SortCompare(s[j], s[k]) < 0)
              => SortCompare(s[i], s[k]) < 0
        /\ (SortCompare(s[i], s[j]) > 0 /\ SortCompare(s[j], s[k]) > 0)
              => SortCompare(s[i], s[k]) > 0

\* x placed behind every element that does not sort after it.
RECURSIVE InsertSorted(_, _)
InsertSorted(sorted, x) ==
    IF sorted = << >> THEN <<x>>
    ELSE IF SortCompare(Head(sorted), x) > 0 THEN <<x>> \o sorted
    ELSE <<Head(sorted)>> \o InsertSorted(Tail(sorted), x)

\* The stable sort of s under SortCompare (Array.prototype.sort is stable).
RECURSIVE StableSort(_)
StableSort(s) ==
    IF s = << >> THEN << >>
    ELSE InsertSorted(StableSort(SubSeq(s, 1, Len(s) - 1)), s[Len(s)])

Rearrangements(s) ==
    { [i \in 1..Len(s) |-> s[p[i]]] : p \in Permutations(1..Len(s)) }

\* What .sort(comparator) may leave in the array: the stable sort when the
\* comparator is consistent; otherwise the order is implementation-defined
\* (ECMAScript, Array.prototype.sort), any rearrangement of the elements.
SortOutcomes(s) ==
    IF ConsistentComparator(s) THEN {StableSort(s)} ELSE Rearrangements(s)

\* Variant: the result object built from a field list that leaves out
\* expert_consensus_rank, instead of from the spread of the player.
MapScores_FieldList(ps) ==
    [i \in 1..Len(ps) |-> [ScorePlayer(ps[i]) EXCEPT !.expert_consensus_rank = Undefined]]

\* players.map(...): a new array, the argument is left as it is.
MapScores(ps) == [i \in 1..Len(ps) |-> ScorePlayer(ps[i])]

\* The arrays calculatePowerScores(ps) may return.
calculatePowerScores(ps) == SortOutcomes(MapScores(ps))

---------------------------------------------------------------------------
(* part_002: identifySleepers *)

SleeperThreshold == Rat(75, 10)
ValueGapThreshold == Int2Num(10)

\* Variant: the filter without the risk_level test.
IsSleeper_IgnoringRisk(player) ==
    /\ JsGt(player.sleeper_rating, SleeperThreshold)
    /\ JsGt(JsSub(player.expert_consensus_rank, player.power_score), ValueGapThreshold)

\* The callback of players.filter.
IsSleeper(player) ==
    /\ JsGt(player.sleeper_rating, SleeperThreshold)
    /\ JsGt(JsSub(player.expert_consensus_rank, player.power_score), ValueGapThreshold)
    /\ player.risk_level # "High"

RECURSIVE Filter(_)
Filter(ps) ==
    IF ps = << >> THEN << >>
    ELSE IF IsSleeper(Head(ps)) THEN <<Head(ps)>> \o Filter(Tail(ps))
    ELSE Filter(Tail(ps))

\* Variant: the matches cut to the first two, as a display list would be.
identifySleepers_Capped(ps) ==
    SubSeq(Filter(ps), 1, IF Len(Filter(ps)) < 2 THEN Len(Filter(ps)) ELSE 2)

identifySleepers(ps) == Filter(ps)

---------------------------------------------------------------------------
(* part_002: analyzeTrends *)

Max(a, b) == IF a < b THEN b ELSE a
Min(a, b) == IF a < b THEN a ELSE b

\* Array.prototype.slice(start, end): a new array of the elements from the
\* resolved start up to, not including, the resolved end; a negative index
\* counts from the end and is held at 0.
JsSlice(s, start, end) ==
    LET from == IF start < 0 THEN Max(Len(s) + start, 0) ELSE Min(start, Len(s))
        to   == IF end < 0 THEN Max(Len(s) + end, 0) ELSE Min(end, Len(s))
    IN  IF from < to THEN SubSeq(s, from + 1, to) ELSE << >>

\* Variant: the reduce weighting by the index itself, 0 for the oldest game.
RECURSIVE WeightedPoints_ZeroBased(_, _)
WeightedPoints_ZeroBased(games, n) ==
    IF n = 0 THEN Int2Num(0)
    ELSE JsAdd(WeightedPoints_ZeroBased(games, n - 1), JsMul(games[n].points, Int2Num(n - 1)))

\* recentGames.reduce((acc, game, index) => acc + game.points * (index + 1), 0)
\* over the first n elements of games.
RECURSIVE WeightedPoints(_, _)
WeightedPoints(games, n) ==
    IF n = 0 THEN Int2Num(0)
    ELSE JsAdd(WeightedPoints(games, n - 1), JsMul(games[n].points, Int2Num(n)))

\* games.reduce((acc, game) => acc + game.points, 0) over the first n elements.
RECURSIVE TotalPoints(_, _)
TotalPoints(games, n) ==
    IF n = 0 THEN Int2Num(0)
    ELSE JsAdd(TotalPoints(games, n - 1), games[n].points)

\* Variant: the weighted sum divided by the sum of the weights 1..n.
TrendScore_WeightSum(recentGames) ==
    JsDiv(WeightedPoints(recentGames, Len(recentGames)),
          Int2Num((Len(recentGames) * (Len(recentGames) + 1)) \div 2))

\* The local trendScore: the weighted sum over recentGames.length.
TrendScore(recentGames) ==
    JsDiv(WeightedPoints(recentGames, Len(recentGames)), Int2Num(Len(recentGames)))

\* The average the direction is decided against: the sum of slice(-8, -4) over 4.
PriorAverage(playerData) ==
    LET prior == JsSlice(playerData, -8, -4)
    IN  JsDiv(TotalPoints(prior, Len(prior)), Int2Num(4))

\* Variant: the direction decided on the rounded score that is returned.
TrendDirection_Rounded(playerData) ==
    IF JsGt(JsDiv(MathRound(JsMul(TrendScore(JsSlice(playerData, -4, Len(playerData))),
                                  Int2Num(10))), Int2Num(10)),
            PriorAverage(playerData))
    THEN "Up" ELSE "Down"

\* trend_direction: the unrounded trendScore against the prior average.
TrendDirection(playerData) ==
    IF JsGt(TrendScore(JsSlice(playerData, -4, Len(playerData))), PriorAverage(playerData))
    THEN "Up" ELSE "Down"

analyzeTrends(playerData) ==
    LET recentGames == JsSlice(playerData, -4, Len(playerData))
        trendScore  == TrendScore(recentGames)
    IN  [ trend_direction |-> TrendDirection(playerData),
          trend_score     |-> JsDiv(MathRound(JsMul(trendScore, Int2Num(10))), Int2Num(10)) ]

---------------------------------------------------------------------------
(* The inputs the callers supply *)

\* The longest collection a caller passes.
MaxPlayers == 3

\* The decimal numeral t/10.
Tenths(t) == Rat(t, 10)

\* Raw records as the data-acquisition side builds them, no power_score yet.
\* 96.1 / 92.3 / 3.2, rank 1 and risk Low are record 1 of getMockFantasyData
\* (part_003).  With projection_score 1.0 the composite ends in ...35, halfway
\* between two tenths.
CompleteRecords ==
    [ performance_score     : {Tenths(0), Tenths(961)},
      projection_score      : {Tenths(10), Tenths(923)},
      sleeper_rating        : {Tenths(32)},
      expert_consensus_rank : {Int2Num(1)},
      risk_level            : {"Low"},
      power_score           : {Undefined} ]

MockRecord1 ==
    [ performance_score     |-> Tenths(961),
      projection_score      |-> Tenths(923),
      sleeper_rating        |-> Tenths(32),
      expert_consensus_rank |-> Int2Num(1),
      risk_level            |-> "Low",
      power_score           |-> Undefined ]

\* Record 1 with one of the three signals absent.
IncompleteRecords ==
    { [MockRecord1 EXCEPT !.performance_score = Undefined],
      [MockRecord1 EXCEPT !.projection_score = Undefined],
      [MockRecord1 EXCEPT !.sleeper_rating = Undefined] }

RawRecords == CompleteRecords \cup IncompleteRecords

\* Records that carry a power_score already, around the thresholds of
\* identifySleepers: 75.2 / 81.8 / 8.9, rank 28 and risk Medium are record 3
\* of getMockFantasyData.
MockRecord3 ==
    [ performance_score     |-> Tenths(752),
      projection_score      |-> Tenths(818),
      sleeper_rating        |-> Tenths(89),
      expert_consensus_rank |-> Int2Num(28),
      risk_level            |-> "Medium",
      power_score           |-> Tenths(785) ]

ScoredRecords ==
    [ performance_score     : {Tenths(752)},
      projection_score      : {Tenths(818)},
      sleeper_rating        : {Tenths(75), Tenths(89)},
      expert_consensus_rank : {Int2Num(28)},
      risk_level            : {"Medium", "High"},
      power_score           : {Tenths(179), Tenths(180)} ]

\* ... and record 3 before any score was attached to it.
RankedRecords == ScoredRecords \cup {[MockRecord3 EXCEPT !.power_score = Undefined]}

\* The record r with the unique id i.
WithId(r, i) ==
    [ id                    |-> i,
      performance_score     |-> r.performance_score,
      projection_score      |-> r.projection_score,
      sleeper_rating        |-> r.sleeper_rating,
      expert_consensus_rank |-> r.expert_consensus_rank,
      risk_level            |-> r.risk_level,
      power_score           |-> r.power_score ]

\* The collections of at most MaxPlayers records of R, ids 1, 2, ... in order.
Collections(R) ==
    UNION { { [i \in 1..n |-> WithId(f[i], i)] : f \in [1..n -> R] } : n \in 0..MaxPlayers }

\* part_002 holds no throw statement: every call returns, error stays "none".
NoCall == [op |-> "none", kind |-> "none", value |-> << >>, error |-> "none"]

Returned(op, value) == [op |-> op, kind |-> "returned", value |-> value, error |-> "none"]

NoValue == Undefined

NoNormalizeCall == [kind |-> "none", value |-> NoValue, error |-> "none"]

NormalizeIdle ==
    /\ nScore = NoValue
    /\ nMin = NoValue
    /\ nMax = NoValue
    /\ nOut = NoNormalizeCall

NoTrendCall ==
    [kind |-> "none", value |-> [trend_direction |-> "none", trend_score |-> NoValue],
     error |-> "none"]

\* App.jsx as first rendered, its mount effect not yet run.
AppIdle ==
    /\ appPlayers = "[]"
    /\ loading = FALSE
    /\ requests = << >>

TrendIdle ==
    /\ gameLog = << >>
    /\ trend = NoTrendCall

---------------------------------------------------------------------------
(* The scoring pipeline: one call of an exported function on the collection, *)
(* then the classifier on the scored collection.                             *)

Init ==
    /\ players \in Collections(RawRecords) \cup Collections(RankedRecords)
    /\ arg = << >>
    /\ outcome = NoCall
    /\ NormalizeIdle
    /\ TrendIdle
    /\ AppIdle

\* calculatePowerScores(players)
CallCalculatePowerScores ==
    /\ outcome.op = "none"
    /\ \E out \in calculatePowerScores(players) :
            outcome' = Returned("calculatePowerScores", out)
    /\ arg' = players
    /\ UNCHANGED <<players, nScore, nMin, nMax, nOut, gameLog, trend, appPlayers, loading, requests>>

\* identifySleepers(players)
CallIdentifySleepers ==
    /\ outcome.op = "none"
    /\ outcome' = Returned("identifySleepers", identifySleepers(players))
    /\ arg' = players
    /\ UNCHANGED <<players, nScore, nMin, nMax, nOut, gameLog, trend, appPlayers, loading, requests>>

\* identifySleepers(calculatePowerScores(players)): the classifier on the
\* collection the calculator returned.
CallIdentifySleepersOnScored ==
    /\ outcome.op = "calculatePowerScores"
    /\ outcome' = Returned("identifySleepers", identifySleepers(outcome.value))
    /\ arg' = outcome.value
    /\ UNCHANGED <<players, nScore, nMin, nMax, nOut, gameLog, trend, appPlayers, loading, requests>>

Next ==
    \/ CallCalculatePowerScores
    \/ CallIdentifySleepers
    \/ CallIdentifySleepersOnScored

Spec == Init /\ [][Next]_vars

---------------------------------------------------------------------------
(* normalizeScore on its own *)

ScoreValues == { Int2Num(-5), Int2Num(0), Int2Num(1), Int2Num(3), Tenths(32),
                 Int2Num(10), Int2Num(50), Int2Num(100), Int2Num(150), Undefined }
MinValues   == { Int2Num(0), Int2Num(3), Int2Num(10) }
MaxValues   == { Int2Num(3), Int2Num(10), Int2Num(100) }

InitNormalize ==
    /\ nScore \in ScoreValues
    /\ nMin \in MinValues
    /\ nMax \in MaxValues
    /\ nOut = NoNormalizeCall
    /\ players = << >>
    /\ arg = << >>
    /\ outcome = NoCall
    /\ TrendIdle
    /\ AppIdle

\* normalizeScore(nScore, nMin, nMax)
CallNormalizeScore ==
    /\ nOut.kind = "none"
    /\ nOut' = [kind |-> "returned", value |-> normalizeScore(nScore, nMin, nMax),
                 error |-> "none"]
    /\ UNCHANGED <<players, arg, outcome, nScore, nMin, nMax, gameLog, trend, appPlayers, loading, requests>>

NextNormalize == CallNormalizeScore

SpecNormalize == InitNormalize /\ [][NextNormalize]_vars

---------------------------------------------------------------------------
(* analyzeTrends on a game log *)

\* The longest game log a caller passes.
MaxGames == 9

\* The point totals a game can have.
PointValues == { Int2Num(0), Int2Num(1), Int2Num(2) }

GameLogs == UNION { [1..n -> [points : PointValues]] : n \in 0..MaxGames }

InitTrend ==
    /\ gameLog \in GameLogs
    /\ trend = NoTrendCall
    /\ players = << >>
    /\ arg = << >>
    /\ outcome = NoCall
    /\ NormalizeIdle
    /\ AppIdle

\* analyzeTrends(gameLog)
CallAnalyzeTrends ==
    /\ trend.kind = "none"
    /\ trend' = [kind |-> "returned", value |-> analyzeTrends(gameLog), error |-> "none"]
    /\ UNCHANGED <<players, arg, outcome, nScore, nMin, nMax, nOut, gameLog, appPlayers, loading, requests>>

NextTrend == CallAnalyzeTrends

SpecTrend == InitTrend /\ [][NextTrend]_vars

---------------------------------------------------------------------------
(* Call sites in any order: each holds its own input (a collection or a game *)
(* log) and calls the exported functions on it, any number of times.  The    *)
(* functions are synchronous, so calls interleave as whole calls.            *)

\* Variant: the scores written into the caller's records and the caller's
\* array sorted in place.
ArgumentAfterCalculate_InPlace(ps, out) == out

\* The caller's array once calculatePowerScores(ps) has returned out: map
\* builds a new array of new objects and sort works on that one.
ArgumentAfterCalculate(ps, out) == ps

\* The caller's array once identifySleepers(ps) has returned: filter builds a
\* new array.
ArgumentAfterIdentify(ps) == ps

\* Variant: the recent window cut out of the caller's log with splice(-4).
ArgumentAfterTrends_Splice(log) == JsSlice(log, 0, -4)

\* The caller's log once analyzeTrends(log) has returned: slice copies and
\* reduce only reads.
ArgumentAfterTrends(log) == log

\* Logs of one repeated point total.
ConstantLogs ==
    { [i \in 1..n |-> [points |-> c]] : n \in 0..MaxGames, c \in PointValues }

InitCalls ==
    /\ \/ /\ players \in Collections(RawRecords) \cup Collections(RankedRecords)
          /\ gameLog = << >>
       \/ /\ players = << >>
          /\ gameLog \in ConstantLogs
    /\ arg = << >>
    /\ outcome = NoCall
    /\ trend = NoTrendCall
    /\ NormalizeIdle
    /\ AppIdle

SiteCalculatePowerScores ==
    /\ \E out \in calculatePowerScores(players) :
            /\ outcome' = Returned("calculatePowerScores", out)
            /\ players' = ArgumentAfterCalculate(players, out)
    /\ arg' = players
    /\ UNCHANGED <<nScore, nMin, nMax, nOut, gameLog, trend, appPlayers, loading, requests>>

SiteIdentifySleepers ==
    /\ outcome' = Returned("identifySleepers", identifySleepers(players))
    /\ players' = ArgumentAfterIdentify(players)
    /\ arg' = players
    /\ UNCHANGED <<nScore, nMin, nMax, nOut, gameLog, trend, appPlayers, loading, requests>>

SiteAnalyzeTrends ==
    /\ trend' = [kind |-> "returned", value |-> analyzeTrends(gameLog), error |-> "none"]
    /\ gameLog' = ArgumentAfterTrends(gameLog)
    /\ UNCHANGED <<players, arg, outcome, nScore, nMin, nMax, nOut, appPlayers, loading, requests>>

NextCalls ==
    \/ SiteCalculatePowerScores
    \/ SiteIdentifySleepers
    \/ SiteAnalyzeTrends

SpecCalls == InitCalls /\ [][NextCalls]_vars

---------------------------------------------------------------------------
(* App.jsx: the players and loading state, the mount effect, the Refresh     *)
(* button and the two fetches of /api/scrape-fantasy-data.  A request is one *)
(* call of loadInitialData or scrapeData: it waits for fetch, then for       *)
(* response.json(), then runs to its end in one step.                        *)

MaxClicks == 2

\* data.players of a response.
Payloads == {"A", "B"}

\* A call that has reached await fetch(...).  overlaps: the mount-time fetch
\* was still in flight when this call started.  found / left: the players
\* state before and after the call's last step.
Request(kind, overlaps) ==
    [ kind     |-> kind,
      stage    |-> "fetch",
      result   |-> "pending",
      data     |-> "none",
      overlaps |-> overlaps,
      found    |-> "none",
      left     |-> "none" ]

InFlight(r) == r.stage # "done"

Scrapes == { i \in DOMAIN requests : requests[i].kind = "scrapeData" }

CoreIdle ==
    /\ players = << >>
    /\ arg = << >>
    /\ outcome = NoCall
    /\ NormalizeIdle
    /\ TrendIdle

InitApp ==
    /\ AppIdle
    /\ CoreIdle

\* useEffect(() => { loadInitialData(); }, []): once, after the first render.
MountEffect ==
    /\ requests = << >>
    /\ requests' = << Request("loadInitialData", FALSE) >>
    /\ UNCHANGED <<appPlayers, loading>>
    /\ UNCHANGED <<players, arg, outcome, nScore, nMin, nMax, nOut, gameLog, trend>>

\* A click on Refresh Data (disabled while loading): scrapeData up to its
\* await fetch(...).
ClickRefresh ==
    /\ requests # << >>
    /\ ~loading
    /\ Cardinality(Scrapes) < MaxClicks
    /\ loading' = TRUE
    /\ requests' = Append(requests, Request("scrapeData", InFlight(requests[1])))
    /\ UNCHANGED appPlayers
    /\ UNCHANGED <<players, arg, outcome, nScore, nMin, nMax, nOut, gameLog, trend>>

\* fetch resolves: the call goes on to await response.json().
FetchResolves(i) ==
    /\ requests[i].stage = "fetch"
    /\ requests' = [requests EXCEPT ![i].stage = "json"]
    /\ UNCHANGED <<appPlayers, loading>>
    /\ UNCHANGED <<players, arg, outcome, nScore, nMin, nMax, nOut, gameLog, trend>>

\* The loading state at the end of a call: scrapeData's finally block sets it
\* to false, loadInitialData does not touch it.
LoadingAfter(kind) == IF kind = "scrapeData" THEN FALSE ELSE loading

\* The last step of call i, which leaves playersAfter in the players state.
Settle(i, result, data, playersAfter) ==
    /\ appPlayers' = playersAfter
    /\ loading' = LoadingAfter(requests[i].kind)
    /\ requests' = [requests EXCEPT ![i] =
                        [@ EXCEPT !.stage = "done", !.result = result, !.data = data,
                                  !.found = appPlayers, !.left = playersAfter]]
    /\ UNCHANGED <<players, arg, outcome, nScore, nMin, nMax, nOut, gameLog, trend>>

\* fetch rejects: the catch block logs.
FetchRejects(i) ==
    /\ requests[i].stage = "fetch"
    /\ Settle(i, "fetch rejected", "none", appPlayers)

\* response.json() resolves: setPlayers(data.players).
JsonResolves(i) ==
    /\ requests[i].stage = "json"
    /\ \E d \in Payloads : Settle(i, "resolved", d, d)

\* response.json() rejects: the catch block logs.
JsonRejects(i) ==
    /\ requests[i].stage = "json"
    /\ Settle(i, "json rejected", "none", appPlayers)

NextApp ==
    \/ MountEffect
    \/ ClickRefresh
    \/ \E i \in DOMAIN requests : FetchResolves(i)
    \/ \E i \in DOMAIN requests : FetchRejects(i)
    \/ \E i \in DOMAIN requests : JsonResolves(i)
    \/ \E i \in DOMAIN requests : JsonRejects(i)

SpecApp == InitApp /\ [][NextApp]_vars

---------------------------------------------------------------------------
(* What the claims speak of *)

Scored == outcome.op = "calculatePowerScores" /\ outcome.kind = "returned"
Classified == outcome.op = "identifySleepers" /\ outcome.kind = "returned"

\* v is a number within [lo, hi].
Within(v, lo, hi) == IsNum(v) /\ ~Less(v, Int2Num(lo)) /\ ~Less(Int2Num(hi), v)

\* The three raw signals are present and inside their domains.
InDomain(r) ==
    /\ Within(r.performance_score, 0, 100)
    /\ Within(r.projection_score, 0, 100)
    /\ Within(r.sleeper_rating, 0, 10)

LacksSignal(r) ==
    \/ r.performance_score = Undefined
    \/ r.projection_score = Undefined
    \/ r.sleeper_rating = Undefined

\* The number v in thousandths (v has at most three decimals).
Thousandths(v) == (v.n * 1000) \div v.d

\* perf_norm*0.40 + proj_norm*0.35 + (sleeper_norm*10)*0.25 in units of 1/100000,
\* perf_norm and proj_norm over [0,100], sleeper_norm = sleeper_rating over [0,10].
Composite(r) ==
    LET perf_norm    == Thousandths(r.performance_score)
        proj_norm    == Thousandths(r.projection_score)
        sleeper_norm == Thousandths(r.sleeper_rating) * 10
    IN  perf_norm * 40 + proj_norm * 35 + (sleeper_norm * 10) * 25

\* c (in units of 1/100000) rounded to one decimal place, a half going up.
OneDecimal(c) == Rat((c + 5000) \div 10000, 10)

\* The record of the output that came from the input record r.
OutputOf(r) == CHOOSE o \in { outcome.value[j] : j \in 1..Len(outcome.value) } : o.id = r.id

Records(s) == { s[i] : i \in 1..Len(s) }

\* C1: every record whose three signals are present and in their domains gets
\* power_score = perf_norm*0.40 + proj_norm*0.35 + (sleeper_norm*10)*0.25
\* rounded to one decimal place.
C1_PowerScoreFormula ==
    Scored =>
        \A r \in Records(arg) :
            InDomain(r) =>
                /\ \E o \in Records(outcome.value) : o.id = r.id
                /\ OutputOf(r).power_score = OneDecimal(Composite(r))

\* A scored collection holding a record whose composite (80.35) lies halfway
\* between two tenths, and a second complete record.
C1_Witness ==
    /\ Scored
    /\ \E r, q \in Records(arg) :
          /\ r.id # q.id
          /\ InDomain(r) /\ InDomain(q)
          /\ Composite(r) % 10000 = 5000
          /\ OutputOf(r).power_score = Tenths(804)

IsMockExample(r) ==
    /\ r.performance_score = Tenths(961)
    /\ r.projection_score = Tenths(923)
    /\ r.sleeper_rating = Tenths(32)

\* C2: performance_score 96.1, projection_score 92.3, sleeper_rating 3.2 yields
\* power_score 78.7 (the sleeper term contributing 8).
C2_MockExampleScore ==
    Scored =>
        \A o \in Records(outcome.value) :
            IsMockExample(o) => o.power_score = Tenths(787)

\* C3: a record whose signals are within their domains gets a power_score
\* within [0, 100].
C3_PowerScoreInScale ==
    Scored =>
        \A o \in Records(outcome.value) :
            InDomain(o) => Within(o.power_score, 0, 100)

NormalizeReturned == nOut.kind = "returned"

\* C4: with min < max, normalizeScore of a number is within [0,100], is 0 at
\* min and below it, and 100 at max and above it.
C4_NormalizeClamped ==
    (NormalizeReturned /\ IsNum(nScore) /\ Less(nMin, nMax)) =>
        /\ Within(nOut.value, 0, 100)
        /\ (nScore = nMin \/ Less(nScore, nMin)) => nOut.value = Int2Num(0)
        /\ (nScore = nMax \/ Less(nMax, nScore)) => nOut.value = Int2Num(100)

\* A call with a score above max that came back as 100.
C4_Witness ==
    /\ NormalizeReturned
    /\ IsNum(nScore) /\ Less(nMin, nMax) /\ Less(nMax, nScore)
    /\ nOut.value = Int2Num(100)

\* r and o agree on every field but power_score.
SameOriginalFields(r, o) ==
    /\ o.id = r.id
    /\ o.performance_score = r.performance_score
    /\ o.projection_score = r.projection_score
    /\ o.sleeper_rating = r.sleeper_rating
    /\ o.expert_consensus_rank = r.expert_consensus_rank
    /\ o.risk_level = r.risk_level

\* C5: the output of calculatePowerScores is as long as the input and a
\* permutation of it: each input record occurs exactly once, with every
\* original field unchanged, and with a power_score.
C5_OutputIsPermutation ==
    Scored =>
        /\ Len(outcome.value) = Len(arg)
        /\ \A i \in 1..Len(arg) :
              /\ Cardinality({ j \in 1..Len(outcome.value) :
                                 outcome.value[j].id = arg[i].id }) = 1
              /\ \E j \in 1..Len(outcome.value) :
                    /\ SameOriginalFields(arg[i], outcome.value[j])
                    /\ outcome.value[j].power_score # Undefined

\* A collection of MaxPlayers records that the sort rearranged.
C5_Witness ==
    /\ Scored
    /\ Len(arg) = MaxPlayers
    /\ \E i \in 1..Len(arg) : outcome.value[i].id # arg[i].id

\* C6: the output is in descending order of power_score, records of equal
\* power_score in their input order (ids are input positions).
C6_DescendingStable ==
    Scored =>
        \A i, j \in 1..Len(outcome.value) :
            i < j =>
                LET a == ToNumber(outcome.value[i].power_score)
                    b == ToNumber(outcome.value[j].power_score)
                IN  /\ ~(IsNum(a) /\ IsNum(b) /\ Less(a, b))
                    /\ (IsNum(a) /\ a = b) => outcome.value[i].id < outcome.value[j].id

\* C7: a record lacking one of the three signals makes calculatePowerScores
\* fail with a MissingSignal error; nothing is returned.
C7_MissingSignalFails ==
    (outcome.op = "calculatePowerScores" /\ \E r \in Records(arg) : LacksSignal(r)) =>
        /\ outcome.kind = "threw"
        /\ outcome.error = "MissingSignal"

\* C8: normalizeScore with min = max fails with an InvalidRange error.
C8_EqualBoundsFail ==
    (nOut.kind # "none" /\ nMin = nMax) =>
        /\ nOut.kind = "threw"
        /\ nOut.error = "InvalidRange"

\* C9: every player identifySleepers returns has sleeper_rating > 7.5,
\* expert_consensus_rank - power_score > 10 and a risk_level other than High.
C9_SleepersSatisfyPredicates ==
    Classified =>
        \A o \in Records(outcome.value) :
            /\ IsNum(o.sleeper_rating) /\ Less(Tenths(75), o.sleeper_rating)
            /\ IsNum(o.power_score) /\ IsNum(o.expert_consensus_rank)
            /\ Less(JsAdd(o.power_score, Int2Num(10)), o.expert_consensus_rank)
            /\ o.risk_level # "High"

\* A classification that returned someone and rejected a High-risk player who
\* passes the two numeric tests.
C9_Witness ==
    /\ Classified
    /\ Len(outcome.value) >= 1
    /\ \E r \in Records(arg) :
          /\ r.risk_level = "High"
          /\ r.sleeper_rating = Tenths(89)
          /\ r.power_score = Tenths(179)

\* The three predicates, as the claim words them.
Matches(r) ==
    /\ IsNum(r.sleeper_rating) /\ Less(Tenths(75), r.sleeper_rating)
    /\ IsNum(r.power_score) /\ IsNum(r.expert_consensus_rank)
    /\ Less(JsAdd(r.power_score, Int2Num(10)), r.expert_consensus_rank)
    /\ r.risk_level # "High"

\* The positions of arg whose record matches.
MatchingPositions == { i \in 1..Len(arg) : Matches(arg[i]) }

\* C10: identifySleepers returns every input player that satisfies the three
\* predicates, none left out, in their input order.
C10_FullMatchingSetInOrder ==
    Classified =>
        /\ \A i \in MatchingPositions : \E j \in 1..Len(outcome.value) : outcome.value[j] = arg[i]
        /\ \E f \in [1..Len(outcome.value) -> 1..Len(arg)] :
              /\ \A j \in 1..Len(outcome.value) : outcome.value[j] = arg[f[j]]
              /\ \A j, k \in 1..Len(outcome.value) : j < k => f[j] < f[k]

\* MaxPlayers players went in, all but one matched and came back.
C10_Witness ==
    /\ Classified
    /\ Len(arg) = MaxPlayers
    /\ Cardinality(MatchingPositions) = MaxPlayers - 1
    /\ Len(outcome.value) = MaxPlayers - 1
    /\ ~Matches(arg[2])

\* C11: a record without power_score makes identifySleepers fail with a
\* PreconditionViolation error; the record is neither judged nor dropped.
C11_MissingPowerScoreFails ==
    (outcome.op = "identifySleepers" /\ \E r \in Records(arg) : r.power_score = Undefined) =>
        /\ outcome.kind = "threw"
        /\ outcome.error = "PreconditionViolation"

TrendReturned == trend.kind = "returned"

\* C12: analyzeTrends on fewer than 8 entries fails with an
\* InsufficientHistory error and returns no direction or score.
C12_ShortLogFails ==
    (trend.kind # "none" /\ Len(gameLog) < 8) =>
        /\ trend.kind = "threw"
        /\ trend.error = "InsufficientHistory"

\* The point total (an integer) of the game k places from the end, 1 the last.
PointsFromEnd(k) == gameLog[Len(gameLog) + 1 - k].points.n

\* 1*p1 + 2*p2 + 3*p3 + 4*p4 over the last four entries, oldest first.
RecentWeighted ==
    1 * PointsFromEnd(4) + 2 * PointsFromEnd(3) + 3 * PointsFromEnd(2) + 4 * PointsFromEnd(1)

\* The sum of the four entries before the last four.
PriorTotal == PointsFromEnd(8) + PointsFromEnd(7) + PointsFromEnd(6) + PointsFromEnd(5)

\* w/4 rounded to one decimal place, a half going up.
QuarterToOneDecimal(w) == Rat((20 * w + 4) \div 8, 10)

AllEqual(c) == \A i \in 1..Len(gameLog) : gameLog[i].points = Int2Num(c)

\* C13 as stated: 8 entries of the same point value c give direction Down
\* and trend_score c.
C13_EqualLogDownAndConstant ==
    \A c \in 0..2 :
        (TrendReturned /\ Len(gameLog) = 8 /\ AllEqual(c)) =>
            /\ trend.value.trend_direction = "Down"
            /\ trend.value.trend_score = Int2Num(c)

\* C13 amended: 8 entries of the same point value c give trend_score
\* (1+2+3+4)*c/4 = 2.5*c, and direction Up when c > 0, Down when c <= 0.
C13_EqualLogScore ==
    \A c \in 0..2 :
        (TrendReturned /\ Len(gameLog) = 8 /\ AllEqual(c)) =>
            /\ trend.value.trend_score = Rat(25 * c, 10)
            /\ trend.value.trend_direction = (IF c > 0 THEN "Up" ELSE "Down")

\* Eight games of 1 point each came back as Up with score 2.5.
C13_Witness ==
    /\ TrendReturned
    /\ Len(gameLog) = 8 /\ AllEqual(1)
    /\ trend.value.trend_direction = "Up"
    /\ trend.value.trend_score = Rat(25, 10)

\* C14: for a log of at least 8 entries, trend_score is
\* (1*p1 + 2*p2 + 3*p3 + 4*p4) / 4 over the last four entries, rounded to one
\* decimal place; no older entry enters it and the divisor is 4.
C14_TrendScoreFormula ==
    (TrendReturned /\ Len(gameLog) >= 8) =>
        trend.value.trend_score = QuarterToOneDecimal(RecentWeighted)

\* A log of 9 entries with points before the last four, whose weighted sum 3
\* gives 0.75, returned as 0.8.
C14_Witness ==
    /\ TrendReturned
    /\ Len(gameLog) = 9
    /\ PriorTotal > 0 /\ gameLog[1].points = Int2Num(2)
    /\ RecentWeighted = 3
    /\ trend.value.trend_score = Rat(8, 10)

\* C15 as stated: direction is Up exactly when the returned (rounded)
\* trend_score exceeds the average of the four entries before the last four.
C15_DirectionByRoundedScore ==
    (TrendReturned /\ Len(gameLog) >= 8) =>
        (trend.value.trend_direction = "Up"
            <=> Less(Rat(PriorTotal, 4), trend.value.trend_score))

\* C15 amended: direction is Up exactly when the unrounded weighted value
\* (1*p1 + 2*p2 + 3*p3 + 4*p4) / 4 exceeds the average of the four entries
\* before the last four, Down otherwise (equality included); entries older
\* than the last eight play no part.
C15_DirectionByUnroundedScore ==
    (TrendReturned /\ Len(gameLog) >= 8) =>
        /\ trend.value.trend_direction \in {"Up", "Down"}
        /\ trend.value.trend_direction = "Up" <=> RecentWeighted > PriorTotal

\* A log of 9 entries, the oldest one not 0, where the weighted value 0.25
\* equals the prior average while the returned 0.3 exceeds it: Down.
C15_Witness ==
    /\ TrendReturned
    /\ Len(gameLog) = 9 /\ gameLog[1].points # Int2Num(0)
    /\ RecentWeighted = 1 /\ PriorTotal = 1
    /\ trend.value.trend_score = Rat(3, 10)
    /\ trend.value.trend_direction = "Down"

C18_NoPartialResults ==
    /\ (outcome.op = "calculatePowerScores" /\ \E r \in Records(arg) : LacksSignal(r)) =>
            outcome.kind # "returned"
    /\ (outcome.op = "identifySleepers" /\ \E r \in Records(arg) : r.power_score = Undefined) =>
            outcome.kind # "returned"
    /\ (trend.kind # "none" /\ Len(gameLog) < 8) => trend.kind # "returned"
    /\ Scored =>
            ~ /\ \E r \in Records(outcome.value) : IsNum(r.power_score)
              /\ \E r \in Records(outcome.value) : ~IsNum(r.power_score)

\* No call of scrapeData is under way and loading is false.
LoadingCleared == (\A i \in Scrapes : ~InFlight(requests[i])) => ~loading

\* A call whose fetch rejected left the players state as it found it.
RejectKeepsPlayers ==
    \A i \in DOMAIN requests :
        requests[i].result = "fetch rejected" => requests[i].left = requests[i].found

\* Every call has ended.
Quiescent == requests # << >> /\ \A i \in DOMAIN requests : ~InFlight(requests[i])

\* The mount-time call and the scrapeData call started last were in flight
\* together and both got their response.
RacedAndResolved ==
    /\ Quiescent
    /\ requests[1].result = "resolved"
    /\ requests[Len(requests)].kind = "scrapeData"
    /\ requests[Len(requests)].overlaps
    /\ requests[Len(requests)].result = "resolved"

\* C19: in App, once every scrapeData call has completed loading is false; a
\* call whose fetch rejected leaves the players state unchanged; and when the
\* mount-time fetch and a scrapeData fetch were in flight together, the
\* players state finally holds the response of the one started last.
C19_LastStartedWins ==
    /\ LoadingCleared
    /\ RejectKeepsPlayers
    /\ RacedAndResolved => appPlayers = requests[Len(requests)].data

===========================================================================
